---- MODULE Spec2Model ----
(***************************************************************************)
(* A model of PokemonAPIClient (src/src/clients/pokeapi_client.py): the    *)
(* connection lifecycle (start / close), _make_request under tenacity's    *)
(* retry decorator, the typed fetch operations and the concurrent batch    *)
(* fetch get_multiple_pokemon; of the module-level singleton; and of the   *)
(* tool handlers built on get_pokemon.  Coroutines are cut at their        *)
(* suspension points: the awaited GET, the awaited aclose() and tenacity's *)
(* sleep.                                                                  *)
(*   Spec           fetches on a client that is not closed meanwhile       *)
(*   SpecLifecycle  start() and close() interleaved with a direct fetch    *)
(*   SpecScope      the client used as an async context manager            *)
(*   SpecSingleton  get_pokemon_client() / close_pokemon_client()          *)
(*   SpecTools      calls of the tool handlers, one after the other        *)
(*   SpecOrder      a batch with the order its fetches end recorded        *)
(*   SpecSuggest    calls of suggest_pokemon_by_criteria_elicit            *)
(*   SpecServer     the server process: resources, tools and its end       *)
(***************************************************************************)
EXTENDS Integers, Sequences, FiniteSets, TLC

\* ------------------------------------------------------------ bounds
\* longest identifier list handed to get_multiple_pokemon
MaxBatch == 3
\* handles the run may open (start() on a client without a handle)
MaxHandles == 2
\* close() calls of the run (any number of them suspended in aclose() at once)
MaxClosers == 2

\* PokemonAPIClient instances get_pokemon_client() may create
MaxInstances == 3
\* coroutines that call get_pokemon_client() and keep what it returned
MaxCallers == 3
\* close_pokemon_client() calls of the run
MaxGlobalCloses == 2

\* ------------------------------------------------------------ constants
\* stop_after_attempt(3)
StopAfterAttempt == 3

\* team_size = 3
TeamSize == 3

\* `if len(suggestions) >= 5: break`
SuggestionLimit == 5
\* `type_pokemon[:20]`
ListingLimit == 20

\* Task 0 is a direct `await client.get_pokemon(x)`; tasks 1..MaxBatch are the
\* coroutines asyncio.gather runs for one get_multiple_pokemon call.
Tasks == 0..MaxBatch
Closers == 1..MaxClosers
Instances == 1..MaxInstances
Callers == 1..MaxCallers

Identifiers == {"pikachu", "Mew"}

\* What a user hands a tool as pokemon_name / name_or_id: names, a name with
\* capitals and surrounding blanks, a Pokédex number; "" stands for None
UserInputs == {"pikachu", " Mew", "eevee", "25"}

\* str.lower() and str.strip() on the strings of the model
Lower(s) ==
    CASE s = "Mew"    -> "mew"
      [] s = " Mew"   -> " mew"
      [] s = "Fuego " -> "fuego "
      [] s = "Fuego"  -> "fuego"
      [] OTHER        -> s
Strip(s) ==
    CASE s = " mew"   -> "mew"
      [] s = " Mew"   -> "Mew"
      [] s = "fuego " -> "fuego"
      [] s = "Fuego " -> "Fuego"
      [] OTHER        -> s

\* The fields pydantic requires of a Pokemon document (no default value).
RequiredFields == {"id", "name", "height", "weight", "types", "stats", "abilities", "sprites"}

\* The same for PokemonSpecies and PokemonSearchResult
SpeciesRequiredFields == {"id", "name", "color", "generation", "is_legendary", "is_mythical"}
SearchRequiredFields == {"count", "results"}

\* The typed fetch operations and the arguments the model calls them with
Ops == {"get_pokemon", "get_pokemon_species", "search_pokemon", "get_type_info"}
TypeNames == {"electric", "Fire"}
LowerType(s) == IF s = "Fire" THEN "fire" ELSE s
\* limit and offset as they appear in f"pokemon?limit={limit}&offset={offset}"
SearchQueries == {"limit=20&offset=0", "limit=1&offset=20"}
Arguments(o) ==
    CASE o = "search_pokemon" -> SearchQueries
      [] o = "get_type_info"  -> TypeNames
      [] OTHER                -> Identifiers

\* f"pokemon/{identifier.lower()}"
Endpoint(identifier) == "pokemon/" \o Lower(identifier)

\* The endpoint each operation formats from its argument
EndpointOf(o, arg) ==
    CASE o = "get_pokemon"         -> Endpoint(arg)
      [] o = "get_pokemon_species" -> "pokemon-species/" \o Lower(arg)
      [] o = "search_pokemon"      -> "pokemon?" \o arg
      [] OTHER                     -> "type/" \o LowerType(arg)

\* The name in the upstream document of an endpoint: PokeAPI serves a
\* Pokémon under its name and under its number ("" where the document has
\* no name, or the endpoint no document)
DocumentName(endpoint) ==
    CASE endpoint \in {"pokemon/pikachu", "pokemon/25", "pokemon-species/pikachu"} -> "pikachu"
      [] endpoint \in {"pokemon/mew", "pokemon-species/mew"} -> "mew"
      [] endpoint = "pokemon/eevee" -> "eevee"
      [] endpoint = "type/electric" -> "electric"
      [] endpoint = "type/fire" -> "fire"
      [] OTHER -> ""

\* The keys of the complete upstream document of an endpoint
DocumentFields(endpoint) ==
    CASE endpoint \in {EndpointOf("get_pokemon_species", i) : i \in Identifiers} ->
             SpeciesRequiredFields
      [] endpoint \in {EndpointOf("search_pokemon", q) : q \in SearchQueries} ->
             SearchRequiredFields
      [] endpoint \in {EndpointOf("get_type_info", n) : n \in TypeNames} ->
             {"id", "name", "damage_relations"}
      [] OTHER -> RequiredFields

\* ------------------------------------------------------------ upstream
\* What one awaited self.client.get(endpoint) can come back with: an HTTP
\* response (exc = "") or a transport exception raised by httpx.
HttpResponse(status, body) == [exc |-> "", status |-> status, body |-> body]
HttpxRaises(cls) == [exc |-> cls, status |-> 0, body |-> ""]

Responses ==
    { HttpResponse(200, "pokemon_doc"),
      HttpResponse(200, "doc_without_name"),
      HttpResponse(200, "empty_doc"),
      HttpResponse(399, "not_json"),
      HttpResponse(400, "bad request"),
      HttpResponse(404, "Not Found"),
      HttpResponse(429, "Too Many Requests"),
      HttpResponse(500, "server error"),
      HttpxRaises("httpx.TimeoutException"),
      HttpxRaises("httpx.ConnectError") }

\* ------------------------------------------------------------ values
\* One shape for everything a coroutine can return or raise.  cls is the
\* Python class: "dict" and the model classes are values, every other cls is
\* an exception class.  name is the document's name of a value, the endpoint
\* of an exception.
Value(cls, name, status, body, fields) ==
    [cls |-> cls, name |-> name, status |-> status, body |-> body, fields |-> fields]
Raise(cls, name, status, body) == Value(cls, name, status, body, {})
NoValue == Value("", "", 0, "", {})

IsException(v) == v.cls \notin {"dict", "Pokemon", "PokemonSpecies", "PokemonSearchResult", ""}

\* response.json(): the decoded mapping, or json.JSONDecodeError.  The body
\* "pokemon_doc" is the complete document of the endpoint, "doc_without_name"
\* that document less its name key, "empty_doc" the JSON object {}.
ResponseJson(endpoint, body) ==
    CASE body = "pokemon_doc" ->
             Value("dict", DocumentName(endpoint), 0, "", DocumentFields(endpoint))
      [] body = "doc_without_name" ->
             Value("dict", "", 0, "", DocumentFields(endpoint) \ {"name"})
      [] body = "empty_doc" ->
             Value("dict", "", 0, "", {})
      [] OTHER                     -> Raise("json.JSONDecodeError", endpoint, 0, body)

\* MakeRequestBody without its 404 branch (a 404 is then one more status >= 400)
MakeRequestBodyNo404(endpoint, resp) ==
    CASE resp.exc = "httpx.TimeoutException" ->
             Raise("PokemonAPITimeoutError", endpoint, 0, "")
      [] resp.exc = "httpx.ConnectError" ->
             Raise("PokemonAPIError", endpoint, 0, "Connection error")
      [] resp.exc # "" ->
             Raise(resp.exc, endpoint, 0, "")
      [] resp.status = 429 ->
             Raise("PokemonAPIRateLimitError", endpoint, 429, "")
      [] resp.status >= 400 ->
             Raise("PokemonAPIError", endpoint, resp.status, resp.body)
      [] OTHER ->
             ResponseJson(endpoint, resp.body)

\* MakeRequestBody testing `status_code > 400` in its last elif
MakeRequestBodyOffByOne(endpoint, resp) ==
    CASE resp.exc = "httpx.TimeoutException" ->
             Raise("PokemonAPITimeoutError", endpoint, 0, "")
      [] resp.exc = "httpx.ConnectError" ->
             Raise("PokemonAPIError", endpoint, 0, "Connection error")
      [] resp.exc # "" ->
             Raise(resp.exc, endpoint, 0, "")
      [] resp.status = 404 ->
             Raise("PokemonNotFoundError", endpoint, 404, "")
      [] resp.status = 429 ->
             Raise("PokemonAPIRateLimitError", endpoint, 429, "")
      [] resp.status > 400 ->
             Raise("PokemonAPIError", endpoint, resp.status, resp.body)
      [] OTHER ->
             ResponseJson(endpoint, resp.body)

\* The try/except of _make_request applied to what the GET came back with.
MakeRequestBody(endpoint, resp) ==
    CASE resp.exc = "httpx.TimeoutException" ->
             Raise("PokemonAPITimeoutError", endpoint, 0, "")
      [] resp.exc = "httpx.ConnectError" ->
             Raise("PokemonAPIError", endpoint, 0, "Connection error")
      [] resp.exc # "" ->
             Raise(resp.exc, endpoint, 0, "")
      [] resp.status = 404 ->
             Raise("PokemonNotFoundError", endpoint, 404, "")
      [] resp.status = 429 ->
             Raise("PokemonAPIRateLimitError", endpoint, 429, "")
      [] resp.status >= 400 ->
             Raise("PokemonAPIError", endpoint, resp.status, resp.body)
      [] OTHER ->
             ResponseJson(endpoint, resp.body)

\* A retry predicate that names the client's own error base class
RetryIfAnyAPIError(v) ==
    v.cls \in {"PokemonAPIError", "PokemonNotFoundError", "PokemonAPITimeoutError",
               "PokemonAPIRateLimitError"}

\* retry_if_exception_type((httpx.TimeoutException, httpx.ConnectError)),
\* applied by tenacity to what the decorated function raised.
RetryIfExceptionType(v) == v.cls \in {"httpx.TimeoutException", "httpx.ConnectError"}

\* tenacity's decision after attempt number n ended with v.
TenacityDecision(v, n) ==
    IF IsException(v) /\ RetryIfExceptionType(v)
    THEN IF n >= StopAfterAttempt THEN "retry_error" ELSE "sleep"
    ELSE "done"

\* A construction of the entity that skips validation
PokemonDecodeLax(data) == Value("Pokemon", data.name, 0, "", data.fields)

\* Pokemon(**data): pydantic validation of the decoded mapping
PokemonDecode(data) ==
    IF RequiredFields \subseteq data.fields
    THEN Value("Pokemon", data.name, 0, "", data.fields)
    ELSE Raise("pydantic.ValidationError", data.name, 0, "")

\* What get_pokemon hands its caller once _make_request (decorated) ended
\* with v: `except Exception: raise` re-raises unchanged.
GetPokemonResult(v) == IF IsException(v) THEN v ELSE PokemonDecode(v)

\* PokemonSpecies(**data)
SpeciesDecode(data) ==
    IF SpeciesRequiredFields \subseteq data.fields
    THEN Value("PokemonSpecies", data.name, 0, "", data.fields)
    ELSE Raise("pydantic.ValidationError", data.name, 0, "")

\* PokemonSearchResult(**data)
SearchDecode(data) ==
    IF SearchRequiredFields \subseteq data.fields
    THEN Value("PokemonSearchResult", data.name, 0, "", data.fields)
    ELSE Raise("pydantic.ValidationError", data.name, 0, "")

\* Typed operations whose except clause wraps what it caught
TypedResultWrapping(o, v) ==
    IF IsException(v) THEN Raise("PokemonAPIError", v.name, 0, v.cls)
    ELSE CASE o = "get_pokemon"         -> PokemonDecode(v)
           [] o = "get_pokemon_species" -> SpeciesDecode(v)
           [] o = "search_pokemon"      -> SearchDecode(v)
           [] OTHER                     -> v

\* What the typed operation o hands its caller once _make_request
\* (decorated) ended with v: each one decodes inside `try` and re-raises
\* with a bare `raise`; get_type_info returns the mapping as it is.
TypedResult(o, v) ==
    CASE o = "get_pokemon"         -> GetPokemonResult(v)
      [] o = "get_pokemon_species" -> IF IsException(v) THEN v ELSE SpeciesDecode(v)
      [] o = "search_pokemon"      -> IF IsException(v) THEN v ELSE SearchDecode(v)
      [] OTHER                     -> v

\* gather left at its default, return_exceptions=False
ReturnExceptionsDefault == FALSE

\* asyncio.gather(..., return_exceptions=True)
ReturnExceptions == TRUE

\* `isinstance(result, Exception)` in the loop of get_multiple_pokemon
IsInstanceException(v) == IsException(v)

\* ------------------------------------------------------------ tools
\* An elicitation state: the keys present in the mapping and their values
\* (a suggestion is kept by its name)
ElicitState(keys, pokemon_name, team) ==
    [keys |-> keys, pokemon_name |-> pokemon_name, team |-> team,
     type |-> "", role |-> "", current_suggestion |-> "",
     available_suggestions |-> <<>>, rejected_suggestions |-> <<>>]
\* {} (also what `state or {}` makes of None)
EmptyState == ElicitState({}, "", <<>>)

\* elicit_state.get("pokemon_name") and elicit_state.get("team", [])
StatePokemonName(state) == IF "pokemon_name" \in state.keys THEN state.pokemon_name ELSE ""
TeamOf(state) == IF "team" \in state.keys THEN state.team ELSE <<>>

\* The states get_pokemon_info_elicit is called with
InfoStates ==
    { EmptyState,
      ElicitState({"pokemon_name"}, "eevee", <<>>),
      ElicitState({"team"}, "", <<[name |-> "pikachu"]>>) }

\* What a tool handler hands back.  text and prompt name the message;
\* position is the N of "#N" in a team prompt; team is the handler's local
\* team when it returned.
ToolResult(is_error, text, team) ==
    [raised |-> FALSE, exc |-> "", is_error |-> is_error, text |-> text,
     elicit |-> FALSE, prompt |-> "", position |-> 0, state |-> EmptyState, team |-> team]
\* create_elicit_response(prompt, state)
CreateElicitResponse(prompt, position, state, team) ==
    [raised |-> FALSE, exc |-> "", is_error |-> FALSE, text |-> prompt,
     elicit |-> TRUE, prompt |-> prompt, position |-> position, state |-> state, team |-> team]
\* an exception leaving the handler
ToolRaises(cls) ==
    [raised |-> TRUE, exc |-> cls, is_error |-> FALSE, text |-> "",
     elicit |-> FALSE, prompt |-> "", position |-> 0, state |-> EmptyState, team |-> <<>>]
NoResult == ToolResult(FALSE, "", <<>>)

\* `await client.get_pokemon(name)` as a tool sees it, the upstream answering
\* every attempt of the request with resp
ClientGetPokemon(name, resp) ==
    LET v == MakeRequestBody(Endpoint(name), resp)
    IN IF TenacityDecision(v, StopAfterAttempt) = "retry_error"
       THEN Raise("tenacity.RetryError", Endpoint(name), 0, "")
       ELSE GetPokemonResult(v)

\* get_pokemon_info with its PokemonNotFoundError clause only
GetPokemonInfoResultNotFoundOnly(v) ==
    CASE v.cls = "Pokemon"              -> ToolResult(FALSE, "info", <<>>)
      [] v.cls = "PokemonNotFoundError" -> ToolResult(TRUE, "not_found", <<>>)
      [] OTHER                          -> ToolRaises(v.cls)

\* try / except PokemonNotFoundError / except Exception of get_pokemon_info
GetPokemonInfoResult(v) ==
    CASE v.cls = "Pokemon"              -> ToolResult(FALSE, "info", <<>>)
      [] v.cls = "PokemonNotFoundError" -> ToolResult(TRUE, "not_found", <<>>)
      [] OTHER                          -> ToolResult(TRUE, "error", <<>>)

\* The except clauses of get_pokemon_info_elicit handing back the state
\* they were given
ErrorStateIncoming(state) == state

\* The state the except clauses of get_pokemon_info_elicit hand to
\* create_elicit_response: {}
ErrorState(state) == EmptyState

\* `name = pokemon_name or elicit_state.get("pokemon_name")`
InfoElicitName(pokemon_name, state) ==
    IF pokemon_name # "" THEN pokemon_name ELSE StatePokemonName(state)

\* get_pokemon_info_elicit once the fetch of a given name ended with v
InfoElicitResult(state, v) ==
    CASE v.cls = "Pokemon" ->
             ToolResult(FALSE, "info", <<>>)
      [] v.cls = "PokemonNotFoundError" ->
             CreateElicitResponse("not_found", 0, ErrorState(state), <<>>)
      [] OTHER ->
             CreateElicitResponse("error", 0, ErrorState(state), <<>>)

\* `len(team) < team_size` tested as `<=`
TeamIncompleteOffByOne(n) == n <= TeamSize

\* `if len(team) < team_size:`
TeamIncomplete(n) == n < TeamSize

\* existing_names = [p.get("name", "").lower() for p in team]
ExistingNames(team) == { Lower(team[i].name) : i \in 1..Len(team) }

\* Whether build_pokemon_team_elicit gets as far as the fetch
TeamFetches(pokemon_name, state) ==
    pokemon_name # "" /\ Strip(Lower(pokemon_name)) \notin ExistingNames(TeamOf(state))

\* build_pokemon_team_elicit(pokemon_name, state), v being what the fetch
\* gave when it was made.  Of a team entry the model keeps the name.
BuildTeamResult(pokemon_name, state, v) ==
    LET team == TeamOf(state)
    IN IF pokemon_name # "" /\ ~TeamFetches(pokemon_name, state)
       THEN CreateElicitResponse("duplicate", Len(team) + 1, state, team)
       ELSE IF pokemon_name # "" /\ v.cls = "PokemonNotFoundError"
       THEN CreateElicitResponse("invalid", Len(team) + 1, state, team)
       ELSE IF pokemon_name # "" /\ v.cls # "Pokemon"
       THEN CreateElicitResponse("validate_error", Len(team) + 1, state, team)
       ELSE LET grown == IF pokemon_name # "" THEN Append(team, [name |-> v.name]) ELSE team
                state2 == IF pokemon_name # ""
                          THEN [state EXCEPT !.keys = @ \cup {"team"}, !.team = grown]
                          ELSE state
            IN IF TeamIncomplete(Len(grown))
               THEN CreateElicitResponse("next", Len(grown) + 1, state2, grown)
               ELSE ToolResult(FALSE, "team_complete", grown)

\* ------------------------------------------------------------ suggestions
\* What a user answers suggest_pokemon_by_criteria_elicit with ("" is None)
SuggestInputs == {"", "fire", "Fuego ", "banana", "ataque", "no", "si", "reiniciar"}

VALID_TYPES ==
    {"normal", "fighting", "flying", "poison", "ground", "rock", "bug", "ghost", "steel",
     "fire", "water", "grass", "electric", "psychic", "ice", "dragon", "dark", "fairy"}
VALID_ROLES == {"ataque", "defensa", "soporte", "velocidad", "equilibrado"}

type_translations ==
    "fuego" :> "fire" @@ "agua" :> "water" @@ "planta" :> "grass" @@ "hierba" :> "grass"
    @@ "eléctrico" :> "electric" @@ "electrico" :> "electric"
    @@ "psíquico" :> "psychic" @@ "psiquico" :> "psychic" @@ "hielo" :> "ice"
    @@ "dragón" :> "dragon" @@ "dragon" :> "dragon" @@ "siniestro" :> "dark"
    @@ "oscuro" :> "dark" @@ "hada" :> "fairy" @@ "lucha" :> "fighting"
    @@ "veneno" :> "poison" @@ "tierra" :> "ground" @@ "roca" :> "rock"
    @@ "bicho" :> "bug" @@ "fantasma" :> "ghost" @@ "acero" :> "steel"
    @@ "volador" :> "flying"

\* The input taken as it is, no alias translated
TranslateTypeNone(type_input) == type_input

\* type_translations.get(type_input, type_input)
TranslateType(type_input) ==
    IF type_input \in DOMAIN type_translations THEN type_translations[type_input]
    ELSE type_input

AcceptWords == {"sí", "si", "yes", "ok", "vale", "perfecto", "me gusta"}
RejectWords == {"no", "nah", "otro", "siguiente", "no me gusta"}

\* The Pokémon the upstream lists for a type, names all different
TypePokemon == <<"charizard", "arcanine", "rapidash">>

RECURSIVE Fitting(_, _, _)
\* the loop of _get_pokemon_suggestions_by_criteria over a listing: the
\* entries not excluded whose fetch and role analysis gave a suggestion
Fitting(listing, excluded, fits) ==
    IF listing = <<>> THEN <<>>
    ELSE LET n == Head(listing)
             rest == Fitting(Tail(listing), excluded, fits)
         IN IF n \notin excluded /\ n \in fits THEN <<n>> \o rest ELSE rest

FirstN(q, n) == SubSeq(q, 1, IF Len(q) < n THEN Len(q) ELSE n)
Range(q) == { q[i] : i \in 1..Len(q) }

\* _get_pokemon_suggestions_by_criteria(poke_type, role, excluded): [] when
\* the type listing could not be fetched, else the first suggestions found
GetSuggestions(excluded, fits, typeFails) ==
    IF typeFails THEN <<>>
    ELSE FirstN(Fitting(FirstN(TypePokemon, ListingLimit), Range(excluded), fits),
                SuggestionLimit)

\* A rejection that leaves the list of available suggestions as it was
RemainingKept(available) == available

\* available[1:]
Remaining(available) == Tail(available)

\* elicit_state.get(key) for the keys of the suggestion flow
StateType(state) == IF "type" \in state.keys THEN state.type ELSE ""
StateRole(state) == IF "role" \in state.keys THEN state.role ELSE ""
StateCurrent(state) ==
    IF "current_suggestion" \in state.keys THEN state.current_suggestion ELSE ""
StateAvailable(state) ==
    IF "available_suggestions" \in state.keys THEN state.available_suggestions ELSE <<>>
StateRejected(state) ==
    IF "rejected_suggestions" \in state.keys THEN state.rejected_suggestions ELSE <<>>

\* Step 3 of suggest_pokemon_by_criteria_elicit: type and role are known and
\* the input is not the restart command
SuggestStep3(user_input, state, fits, typeFails) ==
    LET response == Strip(Lower(user_input))
        suggestions == GetSuggestions(StateRejected(state), fits, typeFails)
        generated == StateCurrent(state) = ""
        state3 == IF generated /\ suggestions # <<>>
                  THEN [state EXCEPT
                          !.keys = @ \cup {"current_suggestion", "available_suggestions"},
                          !.current_suggestion = Head(suggestions),
                          !.available_suggestions = Tail(suggestions)]
                  ELSE state
        current == StateCurrent(state3)
        rejected == Append(StateRejected(state3), current)
        available == StateAvailable(state3)
    IN IF generated /\ suggestions = <<>>
       THEN CreateElicitResponse("none_found", 0, EmptyState, <<>>)
       ELSE IF user_input # "" /\ response \in AcceptWords
       THEN ToolResult(FALSE, "accepted", <<>>)
       ELSE IF user_input # "" /\ response \in RejectWords
       THEN IF available # <<>>
            THEN CreateElicitResponse("suggest", 0,
                     [state3 EXCEPT
                        !.keys = @ \cup {"rejected_suggestions"},
                        !.rejected_suggestions = rejected,
                        !.current_suggestion = Head(available),
                        !.available_suggestions = Remaining(available)], <<>>)
            ELSE CreateElicitResponse("no_more", 0, EmptyState, <<>>)
       ELSE CreateElicitResponse("suggest", 0, state3, <<>>)

\* suggest_pokemon_by_criteria_elicit(user_input, state); fits and typeFails
\* are what the upstream makes of a suggestion search, should one be made
SuggestResult(user_input, state, fits, typeFails) ==
    LET input == Strip(Lower(user_input))
        typed == StateType(state) = "" /\ user_input # ""
        normalized_type == TranslateType(input)
        state1 == IF typed
                  THEN [state EXCEPT !.keys = @ \cup {"type"}, !.type = normalized_type]
                  ELSE state
        poke_type == StateType(state1)
        roled == StateRole(state1) = "" /\ user_input # "" /\ poke_type # ""
        state2 == IF roled
                  THEN [state1 EXCEPT !.keys = @ \cup {"role"}, !.role = input]
                  ELSE state1
    IN IF typed /\ normalized_type \notin VALID_TYPES
       THEN CreateElicitResponse("invalid_type", 0, state, <<>>)
       ELSE IF poke_type = ""
       THEN CreateElicitResponse("ask_type", 0, state1, <<>>)
       ELSE IF roled /\ input \notin VALID_ROLES
       THEN CreateElicitResponse("invalid_role", 0, state1, <<>>)
       ELSE IF StateRole(state2) = ""
       THEN CreateElicitResponse("ask_role", 0, state2, <<>>)
       ELSE IF user_input # "" /\ input = "reiniciar"
       THEN CreateElicitResponse("restart", 0, EmptyState, <<>>)
       ELSE SuggestStep3(user_input, state2, fits, typeFails)

\* States suggest_pokemon_by_criteria_elicit is called with outside a session
SuggestStates ==
    { EmptyState,
      [EmptyState EXCEPT !.keys = {"type"}, !.type = "fire"],
      [EmptyState EXCEPT !.keys = {"type", "role"}, !.type = "fire", !.role = "ataque"],
      [EmptyState EXCEPT
         !.keys = {"type", "role", "current_suggestion", "available_suggestions"},
         !.type = "fire", !.role = "ataque", !.current_suggestion = "charizard",
         !.available_suggestions = <<"arcanine">>],
      [EmptyState EXCEPT
         !.keys = {"type", "role", "current_suggestion"},
         !.type = "fire", !.role = "ataque", !.current_suggestion = "charizard"] }

\* ------------------------------------------------------------ state
VARIABLES
    client,        \* self.client: 0 is None, h > 0 the h-th handle opened
    opened,        \* number of httpx.AsyncClient handles constructed so far
    released,      \* handles on which aclose() has been called
    closePc,       \* per close() call: "idle" (not made yet), "aclose" (suspended
                   \* in aclose()), "noop" (returned, had found no handle),
                   \* "closed" (returned after clearing), "raised"
    closing,       \* per close() call: the handle whose aclose() it awaited, or 0
    pc,            \* per task: "idle", "start", "get", "sleep", "done"
    op,            \* per task: the typed operation it runs
    ident,         \* per task: the argument it was called with
    attempt,       \* per task: tenacity's attempt number
    gets,          \* per task: GETs issued on a handle
    seen,          \* per task: what each GET came back with
    used,          \* per task: the handle of its last GET
    request,       \* per task: what the decorated _make_request returned or raised
    result,        \* per task: what get_pokemon returned or raised
    batch,         \* get_multiple_pokemon: "none", "gathering", "returned", "raised"
    identifiers,   \* its argument
    pokemon_list,  \* its local pokemon_list / return value
    errors,        \* its local errors: the identifier and the error of each failure
    scope,         \* `async with client:` "out" (not entered), "in" (body running),
                   \* "exiting" (__aexit__ suspended in aclose()), "left"
    entered,       \* the handle the client held when the body began
    bodyRaised,    \* whether the body was left by an exception
    global_client, \* the module global _client: 0 is None, i > 0 the i-th instance
    instances,     \* number of PokemonAPIClient() constructed by get_pokemon_client
    handleOf,      \* per instance: its self.client
    holder,        \* per caller: the instance get_pokemon_client() last returned to it
    gclosePc,      \* close_pokemon_client(): "idle", "aclose" (suspended in
                   \* `await _client.close()`), "raised"
    gclosing,      \* the instance whose close() it awaits
    gcloses,       \* close_pokemon_client() calls made so far
    tool,          \* the tool handler called last ("none" before the first call)
    toolArg,       \* its pokemon_name / name_or_id argument ("" is None)
    toolState,     \* its state argument
    fetched,       \* what client.get_pokemon gave it (NoValue: not called)
    toolResult,    \* what the handler returned or raised
    session,       \* the elicitation state the user threads through
                   \* build_pokemon_team_elicit calls
    completed,     \* the tasks of the batch in the order their fetches ended
    serverPc,      \* run_server(): "running", "ended"
    ending,        \* how app.run() ended: "", "return", "interrupt", "error"
    suggestSession \* the elicitation state the user threads through
                   \* suggest_pokemon_by_criteria_elicit calls

lifecycle == <<client, opened, released, closePc, closing>>
taskvars == <<pc, op, ident, attempt, gets, seen, used, request, result>>
batchvars == <<batch, identifiers, pokemon_list, errors>>
scopevars == <<scope, entered, bodyRaised>>
\* what the methods of PokemonAPIClient modelled as actions leave alone
singletonvars == <<global_client, instances, handleOf, holder, gclosePc, gclosing, gcloses>>
toolvars == <<tool, toolArg, toolState, fetched, toolResult, session>>
ordervars == <<completed>>
servervars == <<serverPc, ending>>
suggestvars == <<suggestSession>>
others == <<scopevars, singletonvars, toolvars, ordervars, servervars, suggestvars>>
vars == <<client, opened, released, closePc, closing,
          pc, op, ident, attempt, gets, seen, used, request, result,
          batch, identifiers, pokemon_list, errors,
          scope, entered, bodyRaised,
          global_client, instances, handleOf, holder, gclosePc, gclosing, gcloses,
          tool, toolArg, toolState, fetched, toolResult, session,
          completed, serverPc, ending, suggestSession>>

Init ==
    /\ client = 0
    /\ opened = 0
    /\ released = {}
    /\ closePc = [c \in Closers |-> "idle"]
    /\ closing = [c \in Closers |-> 0]
    /\ pc = [t \in Tasks |-> "idle"]
    /\ op = [t \in Tasks |-> "get_pokemon"]
    /\ ident = [t \in Tasks |-> ""]
    /\ attempt = [t \in Tasks |-> 0]
    /\ gets = [t \in Tasks |-> 0]
    /\ seen = [t \in Tasks |-> <<>>]
    /\ used = [t \in Tasks |-> 0]
    /\ request = [t \in Tasks |-> NoValue]
    /\ result = [t \in Tasks |-> NoValue]
    /\ batch = "none"
    /\ identifiers = <<>>
    /\ pokemon_list = <<>>
    /\ errors = <<>>
    /\ scope = "out"
    /\ entered = 0
    /\ bodyRaised = FALSE
    /\ global_client = 0
    /\ instances = 0
    /\ handleOf = [i \in Instances |-> 0]
    /\ holder = [k \in Callers |-> 0]
    /\ gclosePc = "idle"
    /\ gclosing = 0
    /\ gcloses = 0
    /\ tool = "none"
    /\ toolArg = ""
    /\ toolState = EmptyState
    /\ fetched = NoValue
    /\ toolResult = NoResult
    /\ session = EmptyState
    /\ completed = <<>>
    /\ serverPc = "running"
    /\ ending = ""
    /\ suggestSession = EmptyState

\* ------------------------------------------------------------ lifecycle
\* start() opening a handle on every call
StartOpensAlways(c) == TRUE

\* `if self.client is None:` of start()
StartOpens(c) == c = 0

\* _make_request going to the GET without looking at self.client
NotClientNever(c) == FALSE

\* `if not self.client:` of _make_request, which then awaits start()
NotClient(c) == c = 0

\* start(): opens a handle only when self.client is None; otherwise the call
\* changes nothing
Start ==
    /\ StartOpens(client) => opened < MaxHandles
    /\ IF StartOpens(client)
       THEN /\ opened' = opened + 1
            /\ client' = opened + 1
       ELSE UNCHANGED <<client, opened>>
    /\ UNCHANGED <<released, closePc, closing>>
    /\ UNCHANGED taskvars
    /\ UNCHANGED batchvars
    /\ UNCHANGED others

\* close() without its guard
CloseGuardAlways(c) == TRUE

\* `if self.client:` of close()
CloseGuard(c) == c # 0

\* The c-th close() call of the run, up to its suspension in
\* `await self.client.aclose()`; without a handle the call returns at once.
CloseBegin(c) ==
    /\ closePc[c] = "idle"
    /\ \A b \in 1..(c - 1) : closePc[b] # "idle"
    /\ IF CloseGuard(client)
       THEN IF client = 0
            THEN \* None has no aclose: AttributeError
                 /\ closePc' = [closePc EXCEPT ![c] = "raised"]
                 /\ UNCHANGED <<released, closing>>
            ELSE /\ released' = released \cup {client}
                 /\ closePc' = [closePc EXCEPT ![c] = "aclose"]
                 /\ closing' = [closing EXCEPT ![c] = client]
       ELSE /\ closePc' = [closePc EXCEPT ![c] = "noop"]
            /\ UNCHANGED <<released, closing>>
    /\ UNCHANGED <<client, opened>>
    /\ UNCHANGED taskvars
    /\ UNCHANGED batchvars
    /\ UNCHANGED others

\* close() resumed: self.client = None, then the log line
CloseEnd(c) ==
    /\ closePc[c] = "aclose"
    /\ closePc' = [closePc EXCEPT ![c] = "closed"]
    /\ client' = 0
    /\ UNCHANGED <<opened, released, closing>>
    /\ UNCHANGED taskvars
    /\ UNCHANGED batchvars
    /\ UNCHANGED others

\* ------------------------------------------------------------ fetches
\* `await client.get_pokemon(identifier)` called directly (task 0).  A run
\* fetches either this way or through one get_multiple_pokemon call.
CallGetPokemon(identifier) ==
    /\ pc[0] = "idle"
    /\ batch = "none"
    /\ pc' = [pc EXCEPT ![0] = "start"]
    /\ ident' = [ident EXCEPT ![0] = identifier]
    /\ UNCHANGED <<op, attempt, gets, seen, used, request, result>>
    /\ UNCHANGED lifecycle
    /\ UNCHANGED batchvars
    /\ UNCHANGED others

\* One of the other typed operations called directly (task 0):
\* get_pokemon_species(arg), search_pokemon(limit, offset), get_type_info(arg)
CallTyped(o, arg) ==
    /\ o # "get_pokemon"
    /\ pc[0] = "idle"
    /\ batch = "none"
    /\ pc' = [pc EXCEPT ![0] = "start"]
    /\ op' = [op EXCEPT ![0] = o]
    /\ ident' = [ident EXCEPT ![0] = arg]
    /\ UNCHANGED <<attempt, gets, seen, used, request, result>>
    /\ UNCHANGED lifecycle
    /\ UNCHANGED batchvars
    /\ UNCHANGED others

\* The fetches awaited one after the other instead of gathered
StartGuardSequential(t) ==
    /\ pc[t] \in {"start", "sleep"}
    /\ \A u \in 1..(t - 1) : pc[u] = "done"

\* When the event loop may run task t up to its next suspension: gather has
\* scheduled every coroutine of the batch, none awaits another.
StartGuard(t) == pc[t] \in {"start", "sleep"}

\* One run of the body of _make_request up to its suspension in
\* `await self.client.get(endpoint)`: the first attempt, or the attempt
\* tenacity makes after its sleep.  `if not self.client: await self.start()`
\* does not suspend.  A handle whose aclose() has begun refuses the request
\* (httpx: RuntimeError, raised before anything is sent).
Issue(t) ==
    /\ StartGuard(t)
    /\ LET opens == NotClient(client) /\ StartOpens(client)
           h == IF opens THEN opened + 1 ELSE client
       IN /\ opens => opened < MaxHandles
          /\ client' = h
          /\ opened' = IF opens THEN opened + 1 ELSE opened
          /\ attempt' = [attempt EXCEPT ![t] = @ + 1]
          /\ gets' = [gets EXCEPT ![t] = @ + 1]
          /\ used' = [used EXCEPT ![t] = h]
          /\ IF h = 0 \/ h \in released
             THEN /\ pc' = [pc EXCEPT ![t] = "done"]
                  /\ request' = [request EXCEPT ![t] =
                         IF h = 0
                         THEN \* None has no get
                              Raise("AttributeError", EndpointOf(op[t], ident[t]), 0, "")
                         ELSE Raise("RuntimeError", EndpointOf(op[t], ident[t]), 0,
                                    "client has been closed")]
                  /\ result' = [result EXCEPT ![t] = TypedResult(op[t], request'[t])]
             ELSE /\ pc' = [pc EXCEPT ![t] = "get"]
                  /\ UNCHANGED <<request, result>>
    /\ UNCHANGED <<released, closePc, closing>>
    /\ UNCHANGED <<op, ident, seen>>
    /\ UNCHANGED batchvars
    /\ UNCHANGED others

\* A _make_request that drops the handle when the request failed
ClientDroppedOnError(c, v) == IF IsException(v) THEN 0 ELSE c

\* self.client once the GET has come back and the attempt ended with v:
\* neither the status checks nor the except clauses assign it
ClientAfterResponse(c, v) == c

\* The awaited GET of task t comes back with resp; the rest of the attempt,
\* tenacity's decision and (when the request is over) the rest of get_pokemon
\* run without suspension.
RespondStep(t, resp) ==
    /\ pc[t] = "get"
    /\ LET v == MakeRequestBody(EndpointOf(op[t], ident[t]), resp)
           d == TenacityDecision(v, attempt[t])
       IN /\ seen' = [seen EXCEPT ![t] = Append(@, resp)]
          /\ pc' = [pc EXCEPT ![t] = IF d = "sleep" THEN "sleep" ELSE "done"]
          /\ request' = [request EXCEPT ![t] =
                 CASE d = "sleep"       -> @
                   [] d = "retry_error" ->
                          Raise("tenacity.RetryError", EndpointOf(op[t], ident[t]), 0, "")
                   [] OTHER             -> v]
          /\ result' = [result EXCEPT ![t] =
                 IF d = "sleep" THEN @ ELSE TypedResult(op[t], request'[t])]
          /\ client' = ClientAfterResponse(client, v)
    /\ UNCHANGED <<op, ident, attempt, gets, used>>
    /\ UNCHANGED <<opened, released, closePc, closing>>
    /\ UNCHANGED batchvars

Respond(t, resp) ==
    /\ RespondStep(t, resp)
    /\ UNCHANGED others

\* ------------------------------------------------------------ batch
IdentifierLists == UNION { [1..n -> Identifiers] : n \in 0..MaxBatch }

\* get_multiple_pokemon(ids) up to `await asyncio.gather(...)`: one
\* get_pokemon coroutine per identifier, position i run as task i.
GetMultiplePokemon(ids) ==
    /\ batch = "none"
    /\ pc[0] = "idle"
    /\ batch' = "gathering"
    /\ identifiers' = ids
    /\ pc' = [t \in Tasks |-> IF t \in 1..Len(ids) THEN "start" ELSE pc[t]]
    /\ ident' = [t \in Tasks |-> IF t \in 1..Len(ids) THEN ids[t] ELSE ident[t]]
    /\ UNCHANGED <<op, attempt, gets, seen, used, request, result>>
    /\ UNCHANGED <<pokemon_list, errors>>
    /\ UNCHANGED lifecycle
    /\ UNCHANGED others

BatchTasks == 1..Len(identifiers)

\* A wait that returns when the first task has ended
GatherReadyFirstCompleted == \E t \in BatchTasks : pc[t] = "done"

\* When the awaited gather resumes get_multiple_pokemon: with
\* return_exceptions every task has ended; without, also as soon as one raised.
GatherReady ==
    \/ \A t \in BatchTasks : pc[t] = "done"
    \/ ~ReturnExceptions /\ \E t \in BatchTasks : pc[t] = "done" /\ IsException(result[t])

\* The results taken as the fetches end (asyncio.as_completed)
GatherResultsAsCompleted == [i \in BatchTasks |-> result[completed[i]]]

\* gather's results, in the order of the awaitables
GatherResults == [i \in BatchTasks |-> result[i]]

\* for i, result in enumerate(results): ... ; returns <<pokemon_list, errors>>
RECURSIVE SplitResults(_, _, _, _)
SplitResults(results, i, pl, errs) ==
    IF i > Len(results) THEN <<pl, errs>>
    ELSE IF IsInstanceException(results[i])
         THEN SplitResults(results, i + 1, pl,
                  Append(errs, [identifier |-> identifiers[i], error |-> results[i].cls]))
         ELSE SplitResults(results, i + 1, Append(pl, results[i]), errs)

\* get_multiple_pokemon from the return of gather to its own return
GatherSettle ==
    /\ batch = "gathering"
    /\ GatherReady
    /\ IF ~ReturnExceptions /\ \E t \in BatchTasks : pc[t] = "done" /\ IsException(result[t])
       THEN /\ batch' = "raised"
            /\ UNCHANGED <<pokemon_list, errors>>
       ELSE LET split == SplitResults(GatherResults, 1, <<>>, <<>>)
            IN /\ batch' = "returned"
               /\ pokemon_list' = split[1]
               /\ errors' = split[2]
    /\ UNCHANGED identifiers
    /\ UNCHANGED taskvars
    /\ UNCHANGED lifecycle
    /\ UNCHANGED others

\* ------------------------------------------------------------ completion order
\* The answers the upstream gives in the runs that record completion order
OrderResponses ==
    { HttpResponse(200, "pokemon_doc"),
      HttpResponse(404, "Not Found"),
      HttpxRaises("httpx.TimeoutException") }

\* Respond, the run also recording the order in which the fetches end
RespondRecorded(t, resp) ==
    /\ RespondStep(t, resp)
    /\ completed' = IF pc'[t] = "done" THEN Append(completed, t) ELSE completed
    /\ UNCHANGED <<scopevars, singletonvars, toolvars, servervars, suggestvars>>

\* ------------------------------------------------------------ async with
\* An __aexit__ that closes only when the body ended normally
AExitClosesOnSuccess(raised) == ~raised

\* Whether __aexit__(exc_type, exc_val, exc_tb) calls close(): it does not
\* look at its arguments
AExitCloses(raised) == TRUE

\* `async with client:` entered: __aenter__ awaits start() and the body begins
AEnter ==
    /\ scope \in {"out", "left"}
    /\ StartOpens(client) => opened < MaxHandles
    /\ LET h == IF StartOpens(client) THEN opened + 1 ELSE client
       IN /\ client' = h
          /\ opened' = IF StartOpens(client) THEN opened + 1 ELSE opened
          /\ entered' = h
    /\ scope' = "in"
    /\ bodyRaised' = FALSE
    /\ UNCHANGED <<released, closePc, closing>>
    /\ UNCHANGED taskvars
    /\ UNCHANGED batchvars
    /\ UNCHANGED singletonvars
    /\ UNCHANGED toolvars
    /\ UNCHANGED <<ordervars, servervars, suggestvars>>

\* The body ends, normally or by an exception (one a fetch raised, or any
\* other), and __aexit__ runs up to the suspension of close() in aclose().
\* The body awaits its fetch, so it does not end while one is under way.
AExitBegin(raised) ==
    /\ scope = "in"
    /\ pc[0] \in {"idle", "done"}
    /\ bodyRaised' = raised
    /\ IF AExitCloses(raised) /\ CloseGuard(client)
       THEN /\ released' = released \cup {client}
            /\ scope' = "exiting"
       ELSE /\ scope' = "left"
            /\ UNCHANGED released
    /\ UNCHANGED <<client, opened, closePc, closing, entered>>
    /\ UNCHANGED taskvars
    /\ UNCHANGED batchvars
    /\ UNCHANGED singletonvars
    /\ UNCHANGED toolvars
    /\ UNCHANGED <<ordervars, servervars, suggestvars>>

\* close() resumed inside __aexit__: self.client = None; __aexit__ returns
\* None, so an exception of the body goes on to the caller
AExitEnd ==
    /\ scope = "exiting"
    /\ client' = 0
    /\ scope' = "left"
    /\ UNCHANGED <<opened, released, closePc, closing, entered, bodyRaised>>
    /\ UNCHANGED taskvars
    /\ UNCHANGED batchvars
    /\ UNCHANGED singletonvars
    /\ UNCHANGED toolvars
    /\ UNCHANGED <<ordervars, servervars, suggestvars>>

\* ------------------------------------------------------------ singleton
\* get_pokemon_client() constructing a client on every call
SingletonMissingAlways(g) == TRUE

\* `if _client is None:` of get_pokemon_client()
SingletonMissing(g) == g = 0

\* `if _client:` of close_pokemon_client()
SingletonPresent(g) == g # 0

\* get_pokemon_client() called by caller k: start() on the new instance does
\* not suspend, so the call is one step
GetPokemonClient(k) ==
    /\ SingletonMissing(global_client) => instances < MaxInstances
    /\ IF SingletonMissing(global_client)
       THEN LET i == instances + 1
            IN /\ instances' = i
               /\ global_client' = i
               /\ opened' = IF StartOpens(handleOf[i]) THEN opened + 1 ELSE opened
               /\ handleOf' = [handleOf EXCEPT
                      ![i] = IF StartOpens(@) THEN opened + 1 ELSE @]
               /\ holder' = [holder EXCEPT ![k] = i]
       ELSE /\ holder' = [holder EXCEPT ![k] = global_client]
            /\ UNCHANGED <<instances, global_client, opened, handleOf>>
    /\ UNCHANGED <<gclosePc, gclosing, gcloses>>
    /\ UNCHANGED <<client, released, closePc, closing>>
    /\ UNCHANGED taskvars
    /\ UNCHANGED batchvars
    /\ UNCHANGED scopevars
    /\ UNCHANGED toolvars
    /\ UNCHANGED <<ordervars, servervars, suggestvars>>

\* close_pokemon_client() up to the suspension of `await _client.close()` in
\* aclose(); without a singleton the call returns at once.  The calls are
\* made one after the other.
ClosePokemonClientBegin ==
    /\ gclosePc = "idle"
    /\ gcloses < MaxGlobalCloses
    /\ gcloses' = gcloses + 1
    /\ IF SingletonPresent(global_client)
       THEN IF global_client = 0
            THEN \* None has no close: AttributeError
                 /\ gclosePc' = "raised"
                 /\ UNCHANGED <<released, gclosing, global_client>>
            ELSE IF CloseGuard(handleOf[global_client])
                 THEN /\ released' = released \cup {handleOf[global_client]}
                      /\ gclosePc' = "aclose"
                      /\ gclosing' = global_client
                      /\ UNCHANGED global_client
                 ELSE \* close() returns without suspending; _client = None
                      /\ global_client' = 0
                      /\ UNCHANGED <<released, gclosePc, gclosing>>
       ELSE UNCHANGED <<released, gclosePc, gclosing, global_client>>
    /\ UNCHANGED <<instances, handleOf, holder>>
    /\ UNCHANGED <<client, opened, closePc, closing>>
    /\ UNCHANGED taskvars
    /\ UNCHANGED batchvars
    /\ UNCHANGED scopevars
    /\ UNCHANGED toolvars
    /\ UNCHANGED <<ordervars, servervars, suggestvars>>

\* close_pokemon_client() resumed: close() sets self.client = None on the
\* instance, then `_client = None`
ClosePokemonClientEnd ==
    /\ gclosePc = "aclose"
    /\ handleOf' = [handleOf EXCEPT ![gclosing] = 0]
    /\ global_client' = 0
    /\ gclosePc' = "idle"
    /\ UNCHANGED <<instances, holder, gclosing, gcloses>>
    /\ UNCHANGED lifecycle
    /\ UNCHANGED taskvars
    /\ UNCHANGED batchvars
    /\ UNCHANGED scopevars
    /\ UNCHANGED toolvars
    /\ UNCHANGED <<ordervars, servervars, suggestvars>>

\* ------------------------------------------------------------ tool handlers
\* One call of get_pokemon_info(name_or_id), the upstream answering resp
GetPokemonInfo(name_or_id, resp) ==
    /\ tool' = "get_pokemon_info"
    /\ toolArg' = name_or_id
    /\ toolState' = EmptyState
    /\ fetched' = ClientGetPokemon(name_or_id, resp)
    /\ toolResult' = GetPokemonInfoResult(fetched')
    /\ UNCHANGED session
    /\ UNCHANGED <<lifecycle, taskvars, batchvars, scopevars, singletonvars>>
    /\ UNCHANGED <<ordervars, servervars, suggestvars>>

\* One call of get_pokemon_info_elicit(pokemon_name, state)
GetPokemonInfoElicit(pokemon_name, state, resp) ==
    /\ tool' = "get_pokemon_info_elicit"
    /\ toolArg' = pokemon_name
    /\ toolState' = state
    /\ LET name == InfoElicitName(pokemon_name, state)
       IN IF name = ""
          THEN /\ fetched' = NoValue
               /\ toolResult' = CreateElicitResponse("ask_name", 0, state, <<>>)
          ELSE /\ fetched' = ClientGetPokemon(Strip(Lower(name)), resp)
               /\ toolResult' = InfoElicitResult(state, fetched')
    /\ UNCHANGED session
    /\ UNCHANGED <<lifecycle, taskvars, batchvars, scopevars, singletonvars>>
    /\ UNCHANGED <<ordervars, servervars, suggestvars>>

\* One call of build_pokemon_team_elicit(pokemon_name, state) in a session:
\* state is what the previous call of the session returned in its
\* elicitation, {} at the start; a result without elicitation ends the
\* session and the next call starts one.
BuildPokemonTeamElicit(pokemon_name, resp) ==
    /\ tool' = "build_pokemon_team_elicit"
    /\ toolArg' = pokemon_name
    /\ toolState' = session
    /\ fetched' = IF TeamFetches(pokemon_name, session)
                  THEN ClientGetPokemon(Strip(Lower(pokemon_name)), resp)
                  ELSE NoValue
    /\ toolResult' = BuildTeamResult(pokemon_name, session, fetched')
    /\ session' = IF toolResult'.elicit THEN toolResult'.state ELSE EmptyState
    /\ UNCHANGED <<lifecycle, taskvars, batchvars, scopevars, singletonvars>>
    /\ UNCHANGED <<ordervars, servervars, suggestvars>>

\* ------------------------------------------------------------ specification
\* Fetches, direct and batched, on a client that is started explicitly or
\* lazily and not closed during the run.
Next ==
    \/ Start
    \/ \E identifier \in Identifiers : CallGetPokemon(identifier)
    \/ \E o \in Ops, arg \in TypeNames \cup SearchQueries \cup Identifiers :
           arg \in Arguments(o) /\ CallTyped(o, arg)
    \/ \E ids \in IdentifierLists : GetMultiplePokemon(ids)
    \/ \E t \in Tasks : Issue(t)
    \/ \E t \in Tasks, resp \in Responses : Respond(t, resp)
    \/ GatherSettle

Spec == Init /\ [][Next]_vars

\* The lifecycle: start() and close() calls interleaved with each other and
\* with a direct fetch, at every suspension point.
NextLifecycle ==
    \/ Start
    \/ \E c \in Closers : CloseBegin(c)
    \/ \E c \in Closers : CloseEnd(c)
    \/ \E identifier \in Identifiers : CallGetPokemon(identifier)
    \/ Issue(0)
    \/ \E resp \in Responses : Respond(0, resp)

SpecLifecycle == Init /\ [][NextLifecycle]_vars

\* One coroutine using the client as a context manager, its body making at
\* most one typed fetch.
NextScope ==
    \/ AEnter
    \/ \E identifier \in Identifiers : scope = "in" /\ CallGetPokemon(identifier)
    \/ \E o \in Ops, arg \in TypeNames \cup SearchQueries \cup Identifiers :
           scope = "in" /\ arg \in Arguments(o) /\ CallTyped(o, arg)
    \/ Issue(0)
    \/ \E resp \in Responses : Respond(0, resp)
    \/ \E raised \in BOOLEAN : AExitBegin(raised)
    \/ AExitEnd

SpecScope == Init /\ [][NextScope]_vars

\* The module-level singleton: callers obtaining the client, and teardown
\* calls made one at a time.
NextSingleton ==
    \/ \E k \in Callers : GetPokemonClient(k)
    \/ ClosePokemonClientBegin
    \/ ClosePokemonClientEnd

SpecSingleton == Init /\ [][NextSingleton]_vars

\* Tool calls made one after the other, each against an upstream that
\* answers its fetch in one of the modelled ways.
\* One call of suggest_pokemon_by_criteria_elicit(user_input, state); the
\* handler keeps nothing between calls
SuggestCall(user_input, state, fits, typeFails) ==
    /\ tool' = "suggest_pokemon_by_criteria_elicit"
    /\ toolArg' = user_input
    /\ toolState' = state
    /\ fetched' = NoValue
    /\ toolResult' = SuggestResult(user_input, state, fits, typeFails)
    /\ UNCHANGED session
    /\ UNCHANGED <<lifecycle, taskvars, batchvars, scopevars, singletonvars>>
    /\ UNCHANGED <<ordervars, servervars>>

\* A call with a state of the caller's making
SuggestPokemonByCriteriaElicit(user_input, state, fits, typeFails) ==
    /\ SuggestCall(user_input, state, fits, typeFails)
    /\ UNCHANGED suggestSession

\* A call in a session: state is what the previous call of the session
\* returned in its elicitation, {} at the start; a final answer ends the
\* session and the next call starts one.
SuggestInSession(user_input, fits, typeFails) ==
    /\ SuggestCall(user_input, suggestSession, fits, typeFails)
    /\ suggestSession' = IF toolResult'.elicit THEN toolResult'.state ELSE EmptyState

NextSuggest ==
    \/ \E u \in SuggestInputs, state \in SuggestStates, fits \in SUBSET Range(TypePokemon),
          typeFails \in BOOLEAN : SuggestPokemonByCriteriaElicit(u, state, fits, typeFails)
    \/ \E u \in SuggestInputs, fits \in SUBSET Range(TypePokemon), typeFails \in BOOLEAN :
           SuggestInSession(u, fits, typeFails)

SpecSuggest == Init /\ [][NextSuggest]_vars

\* ------------------------------------------------------------ server
\* A resource handler reads through the module-level pokemon_client of
\* mcp_server.py: the fetch of task 0 on `client`
ReadResource(identifier) ==
    /\ serverPc = "running"
    /\ CallGetPokemon(identifier)

\* The steps of the resource handler's fetch
ResourceIssue ==
    /\ serverPc = "running"
    /\ Issue(0)
ResourceRespond(resp) ==
    /\ serverPc = "running"
    /\ Respond(0, resp)

\* A tool handler, caller k, takes its client from get_pokemon_client()
CallTool(k) ==
    /\ serverPc = "running"
    /\ GetPokemonClient(k)

\* run_server(): app.run() returns, is interrupted or raises; the except
\* and finally blocks and cleanup_resources() only log
RunServerEnds(how) ==
    /\ serverPc = "running"
    /\ serverPc' = "ended"
    /\ ending' = how
    /\ UNCHANGED <<lifecycle, taskvars, batchvars>>
    /\ UNCHANGED <<scopevars, singletonvars, toolvars, ordervars, suggestvars>>

NextServer ==
    \/ \E identifier \in Identifiers : ReadResource(identifier)
    \/ ResourceIssue
    \/ \E resp \in Responses : ResourceRespond(resp)
    \/ \E k \in Callers : CallTool(k)
    \/ \E how \in {"return", "interrupt", "error"} : RunServerEnds(how)

SpecServer == Init /\ [][NextServer]_vars

NextTools ==
    \/ \E n \in UserInputs, resp \in Responses : GetPokemonInfo(n, resp)
    \/ \E n \in UserInputs \cup {""}, state \in InfoStates, resp \in Responses :
           GetPokemonInfoElicit(n, state, resp)
    \/ \E n \in UserInputs \cup {""}, resp \in Responses : BuildPokemonTeamElicit(n, resp)

SpecTools == Init /\ [][NextTools]_vars

\* One get_multiple_pokemon call, the order in which its fetches end recorded.
NextOrder ==
    \/ \E ids \in IdentifierLists : GetMultiplePokemon(ids)
    \/ \E t \in 1..MaxBatch : Issue(t)
    \/ \E t \in 1..MaxBatch, resp \in OrderResponses : RespondRecorded(t, resp)
    \/ GatherSettle

SpecOrder == Init /\ [][NextOrder]_vars

TypeOK ==
    /\ client \in 0..opened
    /\ released \subseteq 1..opened
    /\ \A c \in Closers : closePc[c] \in {"idle", "aclose", "noop", "closed", "raised"}
    /\ \A c \in Closers : closing[c] \in 0..opened
    /\ \A t \in Tasks : pc[t] \in {"idle", "start", "get", "sleep", "done"}
    /\ batch \in {"none", "gathering", "returned", "raised"}
    /\ scope \in {"out", "in", "exiting", "left"}
    /\ entered \in 0..opened
    /\ bodyRaised \in BOOLEAN
    /\ global_client \in 0..instances
    /\ instances \in 0..MaxInstances
    /\ \A i \in Instances : handleOf[i] \in 0..opened
    /\ \A k \in Callers : holder[k] \in 0..instances
    /\ gclosePc \in {"idle", "aclose", "raised"}
    /\ gclosing \in 0..instances
    /\ gcloses \in 0..MaxGlobalCloses
    /\ tool \in {"none", "get_pokemon_info", "get_pokemon_info_elicit",
                 "build_pokemon_team_elicit", "suggest_pokemon_by_criteria_elicit"}
    /\ toolArg \in UserInputs \cup SuggestInputs \cup {""}
    /\ toolResult.raised \in BOOLEAN /\ toolResult.elicit \in BOOLEAN
    /\ session.keys \subseteq {"team"}
    /\ completed \in Seq(Tasks)
    /\ serverPc \in {"running", "ended"}
    /\ ending \in {"", "return", "interrupt", "error"}
    /\ suggestSession.keys \subseteq {"type", "role", "current_suggestion",
                                      "available_suggestions", "rejected_suggestions"}

\* ------------------------------------------------------------ claims
Last(q) == q[Len(q)]
Answered(t) == pc[t] = "done" /\ seen[t] # <<>>
EveryAttemptRaised(t, cls) == \A k \in 1..Len(seen[t]) : seen[t][k].exc = cls
TransientFailure(resp) == resp.exc \in {"httpx.TimeoutException", "httpx.ConnectError"}
JsonBodies == {"pokemon_doc", "doc_without_name", "empty_doc"}
Succeeded(t) == pc[t] = "done" /\ result[t].cls = "Pokemon"
Failed(t) == pc[t] = "done" /\ IsException(result[t])

\* C1: when every GET of a fetch raises a network-level timeout, get_pokemon
\* fails with PokemonAPITimeoutError, and only after exactly 3 GETs.
C1_TimeoutAfterThreeAttempts ==
    \A t \in Tasks :
        Answered(t) /\ EveryAttemptRaised(t, "httpx.TimeoutException")
            => result[t].cls = "PokemonAPITimeoutError" /\ gets[t] = 3

\* C2: when every GET fails with a connection-level error, the request is
\* attempted 3 times and the caller then receives the generic PokemonAPIError.
C2_ConnectErrorAfterThreeAttempts ==
    \A t \in Tasks :
        Answered(t) /\ EveryAttemptRaised(t, "httpx.ConnectError")
            => result[t].cls = "PokemonAPIError" /\ gets[t] = 3

\* C3: retries are invisible to the caller: a timeout or connection error of
\* an attempt within the 3-attempt budget is followed by another attempt and
\* never surfaces, and when the last attempt got a good answer the caller
\* receives the decoded value.
C3_RetriesInvisible ==
    \A t \in Tasks :
        Answered(t) =>
            /\ TransientFailure(Last(seen[t])) => Len(seen[t]) = 3
            /\ (Last(seen[t]).exc = "" /\ Last(seen[t]).status < 400
                    /\ Last(seen[t]).body = "pokemon_doc") => result[t].cls = "Pokemon"

\* C4: whenever the upstream answers 404, get_pokemon fails with
\* PokemonNotFoundError (not the generic error kind, not a decode error).
C4_NotFoundOn404 ==
    \A t \in Tasks :
        Answered(t) /\ Last(seen[t]).exc = "" /\ Last(seen[t]).status = 404
            => result[t].cls = "PokemonNotFoundError"

C4_Witness ==
    \E t \in Tasks :
        /\ Answered(t) /\ Last(seen[t]).status = 404
        /\ result[t].cls = "PokemonNotFoundError"

\* C5: whenever the upstream answers 429, get_pokemon fails with
\* PokemonAPIRateLimitError after exactly one GET: a 429 is never retried.
C5_RateLimitNotRetried ==
    \A t \in Tasks :
        /\ Answered(t) /\ Last(seen[t]).exc = "" /\ Last(seen[t]).status = 429
               => result[t].cls = "PokemonAPIRateLimitError" /\ gets[t] = 1 /\ Len(seen[t]) = 1
        /\ \A k \in 1..Len(seen[t]) : seen[t][k].status = 429 => k = Len(seen[t]) /\ pc[t] = "done"

C5_Witness ==
    \E t \in Tasks :
        /\ Answered(t) /\ Last(seen[t]).status = 429
        /\ result[t].cls = "PokemonAPIRateLimitError" /\ gets[t] = 1

\* C6 as stated: a status >= 400 other than 404 and 429 makes _make_request
\* fail with the generic error carrying status and body after exactly one
\* GET, and any status < 400 makes it return the decoded JSON mapping.
C6_Original ==
    \A t \in Tasks :
        Answered(t) /\ Last(seen[t]).exc = "" =>
            LET r == Last(seen[t])
            IN /\ (r.status >= 400 /\ r.status \notin {404, 429}) =>
                      /\ request[t].cls = "PokemonAPIError"
                      /\ request[t].status = r.status
                      /\ request[t].body = r.body
                      /\ gets[t] = 1
               /\ r.status < 400 => request[t].cls = "dict"

\* C6 amended: as above for status >= 400; a status < 400 makes
\* _make_request return the decoded mapping when the body is JSON, and fail
\* with json.JSONDecodeError after that one GET when it is not.
C6_StatusClassification ==
    \A t \in Tasks :
        Answered(t) /\ Last(seen[t]).exc = "" =>
            LET r == Last(seen[t])
            IN /\ (r.status >= 400 /\ r.status \notin {404, 429}) =>
                      /\ request[t].cls = "PokemonAPIError"
                      /\ request[t].status = r.status
                      /\ request[t].body = r.body
                      /\ gets[t] = 1
               /\ (r.status < 400 /\ r.body \in JsonBodies) => request[t].cls = "dict"
               /\ (r.status < 400 /\ r.body \notin JsonBodies) =>
                      request[t].cls = "json.JSONDecodeError" /\ gets[t] = 1

C6_Witness ==
    \E t, u \in Tasks :
        /\ Answered(t) /\ Last(seen[t]).status = 400 /\ request[t].cls = "PokemonAPIError"
        /\ request[t].body = "bad request"
        /\ Answered(u) /\ Last(seen[u]).status = 399 /\ request[u].cls = "json.JSONDecodeError"

\* C7: get_multiple_pokemon never raises because of failed fetches; it
\* returns one entity per identifier whose fetch succeeded and nothing for
\* the others, so successes plus dropped failures make up the identifiers.
C7_BatchToleratesFailures ==
    /\ batch # "raised"
    /\ batch = "returned" =>
           /\ Len(pokemon_list) = Cardinality({t \in BatchTasks : Succeeded(t)})
           /\ Len(errors) = Cardinality({t \in BatchTasks : Failed(t)})
           /\ Len(pokemon_list) + Len(errors) = Len(identifiers)
           /\ \A k \in 1..Len(pokemon_list) : pokemon_list[k].cls = "Pokemon"

C7_Witness ==
    /\ batch = "returned"
    /\ Len(identifiers) = 2
    /\ Len(pokemon_list) = 1
    /\ \E t \in BatchTasks : result[t].cls = "PokemonNotFoundError"

\* C8: get_multiple_pokemon returns only after every fetch it launched has
\* run and ended, whether or not another fetch of the batch failed.
C8_WaitsForAll ==
    batch \in {"returned", "raised"} =>
        \A t \in BatchTasks : pc[t] = "done" /\ gets[t] >= 1

C8_Witness ==
    /\ batch = "returned"
    /\ Len(identifiers) = 2
    /\ Failed(1) /\ Succeeded(2)

C10_CloseIdempotent ==
    [][ \A c \in Closers :
          /\ (closePc[c] = "idle" /\ closePc'[c] # "idle" /\ client = 0) =>
                 /\ closePc'[c] = "noop"
                 /\ UNCHANGED <<client, opened, released, closing>>
          /\ (closePc[c] = "aclose" /\ closePc'[c] # "aclose") =>
                 closePc'[c] = "closed" /\ client' = 0 ]_vars

\* start(); close(); close(): the first call closed handle 1, the second,
\* made after it, found no handle
C10_Witness ==
    /\ closePc[1] = "closed" /\ closing[1] = 1
    /\ closePc[2] = "noop"
    /\ opened = 1 /\ released = {1} /\ client = 0

\* C11: start() opens a handle only if none exists: with no close() in
\* between, whatever the number of start() calls and of fetches that
\* lazily start the client, one handle at most is ever opened, and every
\* GET issued went out on that handle, which the client still holds.
C11_OneHandle ==
    /\ opened <= 1
    /\ client = opened
    /\ \A t \in Tasks : gets[t] > 0 => used[t] = 1 /\ client = 1

\* every fetch of a full batch has issued its GET, all on the one handle
C11_Witness ==
    /\ batch = "gathering"
    /\ Len(identifiers) = MaxBatch
    /\ \A t \in BatchTasks : gets[t] = 1 /\ used[t] = 1
    /\ opened = 1 /\ client = 1

\* C12: a close() that ran to its end leaves the handle cleared, and every
\* step of _make_request that issues a GET leaves the client holding a
\* handle, the one the GET went out on; when the client held none (closed
\* or never started) that handle is a newly opened one.
C12_HandleBeforeGet ==
    [][ /\ \A c \in Closers :
              (closePc[c] = "aclose" /\ closePc'[c] = "closed") => client' = 0
        /\ \A t \in Tasks :
              gets'[t] # gets[t] =>
                  /\ client' # 0
                  /\ used'[t] = client'
                  /\ client = 0 =>
                         /\ opened' = opened + 1
                         /\ client' = opened'
                         /\ client' \notin released' ]_vars

\* handle 1 was closed and cleared, and the fetch has its GET in flight on
\* handle 2
C12_Witness ==
    /\ closePc[1] = "closed" /\ closing[1] = 1
    /\ pc[0] = "get" /\ gets[0] = 1 /\ used[0] = 2
    /\ client = 2 /\ released = {1}

HttpTaxonomy ==
    {"PokemonNotFoundError", "PokemonAPITimeoutError", "PokemonAPIRateLimitError",
     "PokemonAPIError"}

\* C14: when the GET of get_pokemon is answered 200 with a JSON document
\* that lacks the required field name, get_pokemon raises pydantic's
\* ValidationError, which is none of the four HTTP error kinds, and returns
\* no entity.
C14_DecodeError ==
    \A t \in Tasks :
        ( /\ Answered(t) /\ op[t] = "get_pokemon"
          /\ Last(seen[t]).exc = "" /\ Last(seen[t]).status = 200
          /\ Last(seen[t]).body = "doc_without_name" )
        => /\ result[t].cls = "pydantic.ValidationError"
           /\ result[t].cls \notin HttpTaxonomy
           /\ result[t].fields = {}

C14_Witness ==
    \E t \in Tasks :
        /\ Answered(t) /\ op[t] = "get_pokemon"
        /\ Last(seen[t]) = HttpResponse(200, "doc_without_name")
        /\ request[t].cls = "dict" /\ "name" \notin request[t].fields
        /\ result[t].cls = "pydantic.ValidationError"

\* What pydantic requires of the document operation o decodes
RequiredOf(o) ==
    CASE o = "get_pokemon"         -> RequiredFields
      [] o = "get_pokemon_species" -> SpeciesRequiredFields
      [] o = "search_pokemon"      -> SearchRequiredFields
      [] OTHER                     -> {}

\* C15: each typed operation hands a failure of _make_request to its
\* caller as the very exception raised, and a failed decoding as pydantic's
\* ValidationError; only get_multiple_pokemon turns the failure of a fetch
\* into something other than a raised exception (an omission).
C15_FailuresPropagate ==
    /\ \A t \in Tasks :
          pc[t] = "done" =>
              /\ IsException(request[t]) => result[t] = request[t]
              /\ (~IsException(request[t]) /\ ~(RequiredOf(op[t]) \subseteq request[t].fields))
                     => result[t].cls = "pydantic.ValidationError"
              /\ (~IsException(request[t]) /\ RequiredOf(op[t]) \subseteq request[t].fields)
                     => ~IsException(result[t])
    /\ batch = "returned" =>
          \A t \in BatchTasks :
              Failed(t) => \E k \in 1..Len(errors) :
                               errors[k].identifier = identifiers[t]
                                   /\ errors[k].error = result[t].cls

\* a species fetch answered 429: the caller gets the rate-limit error itself
C15_Witness ==
    /\ pc[0] = "done" /\ op[0] = "get_pokemon_species"
    /\ Last(seen[0]).status = 429
    /\ request[0].cls = "PokemonAPIRateLimitError" /\ result[0] = request[0]

\* C13: while the body of `async with client` runs, the client holds an open
\* handle; once the scope is left, whether the body ended normally or by
\* an exception, close() has been called on that handle and the client
\* holds none.
C13_ScopedAcquisition ==
    /\ scope = "in" => client # 0 /\ client = entered /\ client \notin released
    /\ scope = "left" => client = 0 /\ entered \in released

\* the fetch of the body failed, the body raised, and the scope is left
C13_Witness ==
    /\ scope = "left" /\ bodyRaised
    /\ pc[0] = "done" /\ IsException(result[0])
    /\ entered = 1 /\ released = {1} /\ client = 0

\* C16: between close_pokemon_client() calls the singleton, when there is
\* one, is a started client whose handle is open.  A get_pokemon_client()
\* that hands a caller an instance hands it the singleton: the existing one
\* when there is one, a newly constructed and started one when there is
\* none.  close_pokemon_client() without a singleton changes nothing and
\* does not raise; with one it closes that instance's handle, and when it
\* returns the instance has no handle and the singleton is cleared.
C16_SingletonLifecycle ==
    [][ /\ (gclosePc' = "idle" /\ global_client' # 0) =>
               /\ handleOf'[global_client'] # 0
               /\ handleOf'[global_client'] \notin released'
        /\ \A k \in Callers :
               holder'[k] # holder[k] =>
                   /\ holder'[k] = global_client'
                   /\ global_client # 0 => global_client' = global_client
                   /\ global_client = 0 =>
                          /\ instances' = instances + 1
                          /\ global_client' = instances'
                          /\ handleOf'[global_client'] = opened'
                          /\ opened' = opened + 1
        /\ gcloses' # gcloses =>
               /\ gclosePc' # "raised"
               /\ global_client = 0 =>
                      UNCHANGED <<global_client, instances, handleOf, holder, gclosePc,
                                  opened, released>>
               /\ global_client # 0 => handleOf[global_client] \in released'
        /\ (gclosePc = "aclose" /\ gclosePc' = "idle") =>
               /\ global_client' = 0
               /\ handleOf'[gclosing] = 0
               /\ gclosing = global_client ]_vars

\* close (no singleton), get, get, close, get: both callers were handed
\* instance 1, which was then closed; the next call made instance 2
C16_Witness ==
    /\ gcloses = 2 /\ gclosePc = "idle"
    /\ instances = 2 /\ global_client = 2
    /\ holder[1] = 2 /\ holder[2] = 1
    /\ handleOf[1] = 0 /\ handleOf[2] = 2
    /\ released = {1}

C18_FailureResetsState ==
    (tool = "get_pokemon_info_elicit" /\ IsException(fetched)) =>
        /\ ~toolResult.raised
        /\ toolResult.elicit
        /\ toolResult.prompt \in {"not_found", "error"}
        /\ toolResult.prompt = "not_found" <=> fetched.cls = "PokemonNotFoundError"
        /\ toolResult.state = EmptyState

\* called with a state that is not empty, the fetch timed out
C18_Witness ==
    /\ tool = "get_pokemon_info_elicit"
    /\ toolState # EmptyState
    /\ fetched.cls = "PokemonAPITimeoutError"
    /\ toolResult.elicit /\ toolResult.prompt = "error" /\ toolResult.state = EmptyState

NoTwoSameName(team) ==
    \A i, j \in 1..Len(team) : i # j => team[i].name # team[j].name

\* C19: along a build_pokemon_team_elicit session started from the empty
\* state, a Pokémon already on the team is never added again: no two
\* entries of the team have the same name, in the state the session
\* carries and in the team of the final result, and a call answered with
\* the duplicate message leaves the team as it was.
C19_NoDuplicateOnTeam ==
    /\ NoTwoSameName(TeamOf(session))
    /\ tool = "build_pokemon_team_elicit" =>
           /\ NoTwoSameName(toolResult.team)
           /\ toolResult.prompt = "duplicate" => toolResult.team = TeamOf(toolState)

\* C20: build_pokemon_team_elicit returns an elicitation asking for Pokémon
\* #(team size + 1) as long as the team has fewer than 3 members after the
\* call, and the final analysis without elicitation exactly when the team
\* has 3; along a session started from the empty state a call adds one
\* member at most, removes none, and the team never has more than 3.
C20_TeamProgress ==
    /\ Len(TeamOf(session)) < TeamSize
    /\ tool = "build_pokemon_team_elicit" =>
           LET before == Len(TeamOf(toolState))
               after == Len(toolResult.team)
           IN /\ ~toolResult.raised
              /\ after < TeamSize =>
                     /\ toolResult.elicit
                     /\ toolResult.position = after + 1
                     /\ TeamOf(toolResult.state) = toolResult.team
              /\ ~toolResult.elicit <=> after = TeamSize
              /\ ~toolResult.elicit => toolResult.text = "team_complete"
              /\ before <= after /\ after <= before + 1
              /\ after <= TeamSize
              /\ \A i \in 1..before : toolResult.team[i] = TeamOf(toolState)[i]

\* the third member was added to a team of two and the analysis returned
C20_Witness ==
    /\ tool = "build_pokemon_team_elicit"
    /\ Len(TeamOf(toolState)) = 2
    /\ fetched.cls = "Pokemon"
    /\ Len(toolResult.team) = TeamSize
    /\ ~toolResult.elicit /\ toolResult.text = "team_complete"
    /\ session = EmptyState

\* C26: a step of a fetch (the one that issues its GET, the one in which the
\* GET comes back, with a good answer or any failure) taken while the
\* client holds a handle leaves self.client as it was, so that in runs
\* without close() every GET of a started client goes out on that handle.
C26_FetchKeepsHandle ==
    [][ \A t \in Tasks :
          ((gets'[t] # gets[t] \/ seen'[t] # seen[t]) /\ client # 0) =>
              /\ client' = client
              /\ gets'[t] # gets[t] => used'[t] = client ]_vars

\* on a started client one fetch of the batch failed, another succeeded, a
\* third has its GET in flight, all on handle 1, which the client holds
C26_Witness ==
    /\ batch = "gathering" /\ Len(identifiers) = 3
    /\ Failed(1) /\ Succeeded(2) /\ pc[3] = "get"
    /\ \A t \in 1..3 : used[t] = 1
    /\ client = 1 /\ opened = 1

\* C28: under every interleaving of close() calls with start() and lazily
\* starting fetches no handle is leaked: each handle opened is the one the
\* client holds or has been released.
C28_NoHandleLeaked ==
    \A h \in 1..opened : h = client \/ h \in released

\* C29: no GET is issued on a handle that is being or has been released:
\* the handle a request goes out on is open when the GET is issued.
C29_GetOnOpenHandle ==
    [][ \A t \in Tasks :
          gets'[t] # gets[t] => used'[t] # 0 /\ used'[t] \notin released' ]_vars

\* The entities of the first n fetches that succeeded, by position
RECURSIVE EntitiesInOrder(_)
EntitiesInOrder(n) ==
    IF n = 0 THEN <<>>
    ELSE IF Succeeded(n) THEN Append(EntitiesInOrder(n - 1), result[n])
         ELSE EntitiesInOrder(n - 1)

\* C27: get_multiple_pokemon returns the entities of the fetches that
\* succeeded in the order of their identifiers in the input list, one per
\* occurrence of an identifier, whatever the order in which the fetches
\* ended.
C27_InputOrder ==
    batch = "returned" =>
        /\ pokemon_list = EntitiesInOrder(Len(identifiers))
        /\ \A k \in 1..Len(pokemon_list) :
               \E i \in BatchTasks : pokemon_list[k].name = DocumentName(Endpoint(identifiers[i]))

\* the fetches ended last to first; the list follows the identifiers,
\* the repeated one yielding two entities
C27_Witness ==
    /\ batch = "returned"
    /\ identifiers = <<"pikachu", "Mew", "Mew">>
    /\ completed = <<3, 2, 1>>
    /\ Len(pokemon_list) = 3
    /\ pokemon_list[1].name = "pikachu"
    /\ pokemon_list[2].name = "mew" /\ pokemon_list[3].name = "mew"

\* ------------------------------------------------------------ suggestion flow
SuggestCalled == tool = "suggest_pokemon_by_criteria_elicit"
\* the input of the last call as the handler reads it
SuggestInput == Strip(Lower(toolArg))
\* the last call carried an input and its state held no type
AnswersTypeQuestion == SuggestCalled /\ toolArg # "" /\ "type" \notin toolState.keys
\* a valid type name or one of the Spanish aliases
NamesType(input) == input \in VALID_TYPES \/ input \in DOMAIN type_translations
EnglishType(input) ==
    IF input \in DOMAIN type_translations THEN type_translations[input] ELSE input
\* both prompts of the role step end in the role question
AsksRole(r) == r.elicit /\ r.prompt \in {"ask_role", "invalid_role"}

\* C21: a call whose state holds no type and whose input names a type
\* (English name or Spanish alias) returns a state holding the English
\* type, no role yet, and a prompt asking the role question; with any
\* other input it returns the state it was given and the invalid-type
\* prompt; a type held by a returned state of a session is a valid type.
C21_TypeStep ==
    /\ AnswersTypeQuestion /\ NamesType(SuggestInput) =>
          /\ AsksRole(toolResult)
          /\ toolResult.state =
                [toolState EXCEPT !.keys = @ \cup {"type"}, !.type = EnglishType(SuggestInput)]
    /\ AnswersTypeQuestion /\ ~NamesType(SuggestInput) =>
          /\ toolResult.elicit /\ toolResult.prompt = "invalid_type"
          /\ toolResult.state = toolState
    /\ SuggestCalled /\ toolResult.elicit /\ "type" \in toolResult.state.keys =>
          toolResult.state.type \in VALID_TYPES
    /\ "type" \in suggestSession.keys => suggestSession.type \in VALID_TYPES

\* a Spanish alias with capitals and a blank was stored as the English type
C21_Witness ==
    /\ AnswersTypeQuestion /\ toolArg = "Fuego "
    /\ toolResult.state.type = "fire"
    /\ suggestSession = toolResult.state

\* C22: a call whose input is 'reiniciar' returns the restart prompt and
\* the empty state, whatever state it was given.
C22_RestartAnywhere ==
    SuggestCalled /\ toolArg # "" /\ SuggestInput = "reiniciar" =>
        /\ toolResult.elicit /\ toolResult.prompt = "restart"
        /\ toolResult.state = EmptyState

\* the last call rejected the suggestion it had or had just made
Rejecting ==
    /\ SuggestCalled /\ toolArg # "" /\ SuggestInput \in RejectWords
    /\ "type" \in toolState.keys /\ "role" \in toolState.keys
    /\ "current_suggestion" \in toolState.keys

\* C23: a rejection with suggestions still available returns a state whose
\* rejected_suggestions is the old list with the old current suggestion
\* appended, whose current suggestion is the first of the old available
\* ones and whose available_suggestions is the rest of them (one shorter);
\* with none available it returns the 'no more' prompt and the empty
\* state; the current suggestion of a returned state is never among its
\* rejected ones.
C23_Reject ==
    /\ Rejecting /\ StateAvailable(toolState) # <<>> =>
          /\ toolResult.elicit /\ toolResult.prompt = "suggest"
          /\ toolResult.state.rejected_suggestions =
                Append(StateRejected(toolState), toolState.current_suggestion)
          /\ toolResult.state.current_suggestion = Head(toolState.available_suggestions)
          /\ toolResult.state.available_suggestions = Tail(toolState.available_suggestions)
          /\ Len(toolResult.state.available_suggestions)
                < Len(toolState.available_suggestions)
    /\ Rejecting /\ StateAvailable(toolState) = <<>> =>
          /\ toolResult.elicit /\ toolResult.prompt = "no_more"
          /\ toolResult.state = EmptyState
    /\ SuggestCalled /\ toolResult.elicit
         /\ "current_suggestion" \in toolResult.state.keys =>
          toolResult.state.current_suggestion
              \notin Range(StateRejected(toolResult.state))
    /\ "current_suggestion" \in suggestSession.keys =>
          suggestSession.current_suggestion \notin Range(StateRejected(suggestSession))

\* a session that has rejected two suggestions and shows the third
C23_Witness ==
    /\ Rejecting
    /\ suggestSession = toolResult.state
    /\ suggestSession.rejected_suggestions = <<"charizard", "arcanine">>
    /\ suggestSession.current_suggestion = "rapidash"
    /\ suggestSession.available_suggestions = <<>>

\* C30: the 'is not a valid role' prompt is returned only by a call whose
\* state already held a type.
C30_RoleJudgedOnlyAfterType ==
    SuggestCalled /\ toolResult.elicit /\ toolResult.prompt = "invalid_role" =>
        "type" \in toolState.keys

\* ------------------------------------------------------------ server claims
\* the handles opened and not released
OpenHandles == { h \in 1..opened : h \notin released }

\* C24: tool handlers and resource handlers share one client, so at most
\* one connection handle is open at any time.
C24_OneOpenHandle == Cardinality(OpenHandles) <= 1

\* C25: once run_server has ended, by return, interrupt or error, every
\* handle opened during the run has been released.
C25_AllClosedAtEnd == serverPc = "ended" => OpenHandles = {}

====
